---- MODULE Spec2Model ----
(***************************************************************************)
(* influx6/sitecrawler: the worker pool (workerPool: Add, lunch, Stop,     *)
(* WaitOnStop), the seen set (HasSet) and the crawl coordinator            *)
(* (PageCrawler.Run, CrawlBody, getURLStatus, exploreURL) run by main on   *)
(* the site the repository's tests serve.                                  *)
(*                                                                         *)
(* Goroutines are modelled by their position: every task handed to         *)
(* pool.Add is a record in the bag `tasks` holding the position of its Add *)
(* call (apc) and of the worker executing it (wpc); workers holding no task *)
(* are counted by position (starting, idle, parked, exiting, leaving).     *)
(* an unbuffered channel and its receive are one joint step of the party   *)
(* that arrives and the party that waits.  A select with several cases     *)
(* that can proceed is a nondeterministic choice among them.               *)
(***************************************************************************)
EXTENDS Integers, Sequences, FiniteSets, Bags, TLC

VARIABLES
    max,            \* workerPool.max
    totalWorkers,   \* workerPool.totalWorkers (atomic)
    activeWorkers,  \* workerPool.activeWorkers (atomic)
    wg,             \* workerPool.wg counter
    closed,         \* workerPool.close is closed
    poolDone,       \* workerPool.ctx is cancelled
    starting,       \* lunch goroutines spawned, totalWorkers not yet incremented
    idle,           \* lunch goroutines at their select, cases not yet polled
    parked,         \* lunch goroutines parked in their select
    exiting,        \* lunch goroutines that chose return, defers not yet run
    leaving,        \* lunch goroutines between their two deferred calls
    stopPc,         \* position of the Stop() call
    stopTotal,      \* Stop: local total
    stopI,          \* Stop: loop index i
    wosPc,          \* position of the WaitOnStop() call
    wosSaw,         \* what held when WaitOnStop returned
    tasks,          \* every task passed to Add, with its Add call and execution
    sets,           \* HasSet.data of every HasSet created, in the order of creation
    waiter,         \* PageCrawler.waiter counter (outstanding work)
    mon,            \* monitor goroutines (waiter.Wait(); close(reports)) by position
    closes,         \* number of close(reports) executed
    reports,        \* reports received from the stream, in order
    runDone,        \* the ctx passed to Run is cancelled
    mainPc,         \* position of main's Action
    page,           \* TestBodyCrawler: the body passed to CrawlBody
    testLinks,      \* TestBodyCrawler: links, what CrawlBody returned
    head,           \* a call of getURLStatus: what client.Head returns
    probed          \* a call of getURLStatus: the Status returned

poolVars == <<max, totalWorkers, activeWorkers, wg, closed, poolDone, starting,
              idle, parked, exiting, leaving, stopPc, stopTotal, stopI, wosPc, wosSaw>>
crawlVars == <<sets, waiter, mon, closes, reports, runDone, mainPc>>
bodyVars == <<page, testLinks, head, probed>>
vars == <<poolVars, tasks, crawlVars, bodyVars>>

(***************************************************************************)
(* Bounds of the model.                                                    *)
(***************************************************************************)
MaxPool == 2
MaxCalls == 2
MaxDepth == 3
MaxLinks == 3

(***************************************************************************)
(* URLs, paths and the site served by the tests' handler.  A path is the   *)
(* sequence of its "/" separators and segment names, so the string         *)
(* operations of the code act on it as they act on the string.             *)
(***************************************************************************)
ServerHost == "server"
ExternalHost == "twitter.com"

IndexPath == <<"/">>
ServicesPath == <<"/", "services">>
ContactsPath == <<"/", "contacts">>
JsonCardPath == <<"/", "jsoncard">>
WombatPath == <<"/", "wombat">>

URL(host, path) == [Host |-> host, Path |-> path]
NoURL == URL("", <<>>)

\* An attribute value as url.Parse reads it: absolute (scheme and host) or a
\* reference holding a path only.
Href(isAbs, host, path) == [IsAbs |-> isAbs, Host |-> host, Path |-> path]

indexPage == << Href(FALSE, "", ServicesPath), Href(FALSE, "", ContactsPath) >>
servicePage == << Href(FALSE, "", ServicesPath) >>
contactPage == << Href(FALSE, "", IndexPath), Href(FALSE, "", ServicesPath),
                  Href(FALSE, "", JsonCardPath), Href(TRUE, ExternalHost, WombatPath) >>
jsonCard == << >>

Response(code, ctype, body) == [StatusCode |-> code, ContentType |-> ctype, Body |-> body]

\* testHandler.ServeHTTP: the response to `method` on `path`.
ServeHTTP(method, path) ==
    IF method = "head"
    THEN Response(200, IF path # JsonCardPath THEN <<"text/html">> ELSE <<"application/json">>, << >>)
    ELSE CASE path = JsonCardPath -> Response(200, <<"application/json">>, jsonCard)
           [] path = IndexPath    -> Response(200, <<"text/html">>, indexPage)
           [] path = ContactsPath -> Response(200, <<"text/html">>, contactPage)
           [] path = ServicesPath -> Response(200, <<"text/html">>, servicePage)
           [] OTHER               -> Response(400, << >>, << >>)

\* A second server, of html pages only, given to the crawler as another
\* input: "/" links to /a and /b, /a to /b, /b to /c, /c to nothing, so that
\* /b is one link and two links away from "/".  Its page /services, which no
\* other page links to, links to /wombat and to /c; /wombat answers HEAD as an
\* html page and GET with status 404.
GraphHost == "graph"
APath == <<"/", "a">>
BPath == <<"/", "b">>
CPath == <<"/", "c">>
GraphPages ==
    (IndexPath :> << Href(FALSE, "", APath), Href(FALSE, "", BPath) >>)
    @@ (APath :> << Href(FALSE, "", BPath) >>)
    @@ (BPath :> << Href(FALSE, "", CPath) >>)
    @@ (CPath :> << >>)
    @@ (ServicesPath :> << Href(FALSE, "", WombatPath), Href(FALSE, "", CPath) >>)
GraphServe(method, path) ==
    IF method = "head" /\ path \in DOMAIN GraphPages \cup {WombatPath}
    THEN Response(200, <<"text/html">>, << >>)
    ELSE IF path \notin DOMAIN GraphPages THEN Response(404, << >>, << >>)
    ELSE Response(200, <<"text/html">>, GraphPages[path])

\* http.Client.Head / Get: the response of the server of the target's host,
\* a transport error for any other host; an empty path is requested as "/".
ClientDo(method, target) ==
    LET path == IF target.Path = << >> THEN IndexPath ELSE target.Path IN
    IF target.Host = ServerHost THEN [err |-> FALSE, res |-> ServeHTTP(method, path)]
    ELSE IF target.Host = GraphHost THEN [err |-> FALSE, res |-> GraphServe(method, path)]
    ELSE [err |-> TRUE, res |-> Response(0, << >>, << >>)]

\* strings.Contains(contentType, sub): a content type is the sequence of its
\* media type and parameters.
Contains(ctype, sub) == \E i \in 1..Len(ctype) : ctype[i] = sub

\* strings.TrimSuffix(path, "/")
TrimSuffix(path) ==
    IF Len(path) > 0 /\ path[Len(path)] = "/" THEN SubSeq(path, 1, Len(path) - 1) ELSE path

\* Run, lines 93-96: the normalized path of a target.
Trimmed(path) == IF TrimSuffix(path) = << >> THEN <<"/">> ELSE TrimSuffix(path)

Status(live, crawlable, last, reason) ==
    [IsLive |-> live, IsCrawlable |-> crawlable, LastStatus |-> last, Reason |-> reason]
ZeroStatus == Status(FALSE, FALSE, 0, "nil")

LinkReport(path, status, pointsTo) == [Path |-> path, Status |-> status, PointsTo |-> pointsTo]
ZeroReport == LinkReport(NoURL, ZeroStatus, << >>)

\* getURLStatus, lines 234-265: the status for what client.Head returned.
StatusLiveOnError(r) ==
    IF r.err THEN Status(TRUE, FALSE, 500, "err")
    ELSE IF r.res.StatusCode < 200 \/ r.res.StatusCode > 299
    THEN Status(TRUE, FALSE, r.res.StatusCode, "ErrPageFailed")
    ELSE IF ~Contains(r.res.ContentType, "text/html") /\ ~Contains(r.res.ContentType, "text/xhtml")
    THEN Status(TRUE, FALSE, r.res.StatusCode, "ErrNonHTMLURL")
    ELSE Status(TRUE, TRUE, r.res.StatusCode, "nil")
StatusFrom(r) ==
    IF r.err THEN Status(FALSE, FALSE, 500, "err")
    ELSE IF r.res.StatusCode < 200 \/ r.res.StatusCode > 299
    THEN Status(FALSE, FALSE, r.res.StatusCode, "ErrPageFailed")
    ELSE IF ~Contains(r.res.ContentType, "text/html") /\ ~Contains(r.res.ContentType, "text/xhtml")
    THEN Status(TRUE, FALSE, r.res.StatusCode, "ErrNonHTMLURL")
    ELSE Status(TRUE, TRUE, r.res.StatusCode, "nil")

getURLStatus(target) == StatusFrom(ClientDo("head", target))

exploreURL(target) ==
    LET r == ClientDo("get", target) IN
    IF r.err THEN [err |-> "err", body |-> << >>]
    ELSE IF r.res.StatusCode < 200 \/ r.res.StatusCode > 299
    THEN [err |-> "ErrPageFailed", body |-> << >>]
    ELSE IF ~Contains(r.res.ContentType, "text/html") /\ ~Contains(r.res.ContentType, "text/xhtml")
    THEN [err |-> "ErrNonHTMLURL", body |-> << >>]
    ELSE [err |-> "nil", body |-> r.res.Body]

\* parsePath: an absolute value is kept, a reference is resolved against index.
parsePath(href, index) ==
    IF href.IsAbs THEN URL(href.Host, href.Path) ELSE URL(index.Host, href.Path)

\* farmWithHTML: the parsed value of every href of the body.  The map is keyed
\* by pointer, so every parsed value is an entry of its own.
farmWithHTML(body, rootURL) == [i \in 1..Len(body) |-> parsePath(body[i], rootURL)]

\* Lines 218-221: the links of the target's host, in their order.
RECURSIVE SameHost(_, _)
AnyHost(links, host) == links
SameHost(links, host) ==
    IF links = << >> THEN << >>
    ELSE IF Head(links).Host # host THEN SameHost(Tail(links), host)
    ELSE <<Head(links)>> \o SameHost(Tail(links), host)

\* CrawlBody: the same-host links of the body, each with its probed status.
\* The kids are kept in the order of the body; Run ranges over them in any
\* order, as ranging over the map of farmWithHTML delivers them in any order.
CrawlBody(target, body) ==
    LET links == SameHost(farmWithHTML(body, target), target.Host) IN
    [i \in 1..Len(links) |-> LinkReport(links[i], getURLStatus(links[i]), << >>)]

\* Every URL the crawl of the site comes to, with what the client obtains for
\* it: the status of its probe, and the error or the kids of its body.
Targets ==
    {URL(host, path) : host \in {ServerHost, ExternalHost, GraphHost},
                       path \in {IndexPath, ServicesPath, ContactsPath, JsonCardPath, WombatPath,
                                 APath, BPath, CPath}}
Probed == [target \in Targets |-> getURLStatus(target)]
Crawled ==
    [target \in Targets |->
        LET got == exploreURL(target) IN
        [err |-> got.err,
         kids |-> IF got.err # "nil" THEN << >> ELSE CrawlBody(target, got.body)]]

\* NewHasSet, HasSet.Has and HasSet.Add
NewHasSet(heap) == Append(heap, {})
Has(data, val) == val \in data
Add(data, item) == data \cup {item}

(***************************************************************************)
(* Tasks.  A task is the func() passed to Add: a plain function (kind      *)
(* "fn") or the closure calling PageCrawler.Run (kind "crawl").            *)
(***************************************************************************)
PageCrawler(maxDepth, target, current, child, hasReport, report) ==
    [MaxDepth |-> maxDepth, Target |-> target, current |-> current, child |-> child,
     hasReport |-> hasReport, report |-> report,
     seen |-> 0]                \* the index of its HasSet in sets, 0 for nil

Task(kind, crawler, afterStop) ==
    [kind |-> kind,
     apc |-> "load",            \* Add: "load", "active", "branch", "select" (cases not
                                \* yet polled), "parked", "woken", "returned"
     total |-> 0, active |-> 0, \* Add: locals, while they are live
     spawned |-> FALSE,         \* this Add ran `go w.lunch()`
     res |-> "none",            \* the select case Add returned by
     wpc |-> "none",            \* the worker holding the task, and Run within it
     pc |-> crawler,            \* Run: the receiver
     report |-> ZeroReport,     \* Run: local report
     todo |-> {},               \* Run: the kids the range has still to check in seen
     afterStop |-> afterStop,   \* Add was called after Stop() had returned
     blocked |-> FALSE]         \* Add was parked in its select when ctx was cancelled

\* A task whose Add has returned and whose work is over or will never start
\* keeps no locals and no facts about the call.
Over(r) == [r EXCEPT !.afterStop = FALSE, !.report = ZeroReport, !.todo = {}]

NoCrawler == PageCrawler(0, NoURL, 0, FALSE, FALSE, ZeroReport)

\* The task records present, and the number of tasks among them in a set.
Tasks == BagToSet(tasks)
Count(S) == BagCardinality([r \in (S \cap Tasks) |-> tasks[r]])

\* One task steps from record r to record r2; a new task r2.
Step(r, r2) == tasks' = (tasks (-) SetToBag({r})) (+) SetToBag({r2})
Submit(r2) == tasks' = tasks (+) SetToBag({r2})

Holding == {r \in Tasks : r.wpc \notin {"none", "done"}}

\* Goroutines running lunch.
LiveWorkers == starting + idle + parked + exiting + leaving + Count(Holding)

\* sync.WaitGroup.Wait: a blocked waiter is released by the Done that brings
\* the counter to zero.
Released(pc, counter) == IF pc = "blocked" /\ counter = 0 THEN "returned" ELSE pc
WaitPc(counter) == IF counter = 0 THEN "returned" ELSE "blocked"

\* err != nil at line 199 of Run.  workerPool.Add (lines 54-87) has no
\* result: each case of its selects is a bare return, so whatever the case
\* that returned there is no error for the dispatcher to find.
AddErr(res) == FALSE

\* waiter.Done() by the dispatching goroutine, Run line 200.
DropDone(r, res) == r.kind = "crawl" /\ r.pc.child /\ AddErr(res)

\* Monitors blocked in waiter.Wait() are released when the counter is zero.
MonReleased(m, counter) ==
    IF counter = 0
    THEN [m EXCEPT !.blocked = 0, !.close = m.close + m.blocked]
    ELSE m

(***************************************************************************)
(* workerPool.Add.  A select first polls its cases: of those that can      *)
(* proceed it takes any one; when none can it parks the goroutine on every *)
(* channel.  The first event on one of the channels (a close, or a partner *)
(* arriving at the other end) decides the case of a parked goroutine at    *)
(* once, so no later event can.                                            *)
(***************************************************************************)
AddLoadTotal(r) ==
    /\ r.apc = "load"
    /\ Step(r, [r EXCEPT !.total = totalWorkers, !.apc = "active"])
    /\ UNCHANGED <<bodyVars, poolVars, crawlVars>>

AddLoadActive(r) ==
    /\ r.apc = "active"
    /\ Step(r, [r EXCEPT !.active = activeWorkers, !.apc = "branch"])
    /\ UNCHANGED <<bodyVars, poolVars, crawlVars>>

\* Lines 63-77: whether this Add spawns a worker.
SpawnsWhenIdle(total, active) == total < max /\ active < total
Spawns(total, active) == total < max /\ ~(active < total)

AddBranch(r) ==
    /\ r.apc = "branch"
    /\ IF Spawns(r.total, r.active)
       THEN /\ wg' = wg + 1
            /\ starting' = starting + 1
            /\ Step(r, [r EXCEPT !.spawned = TRUE, !.apc = "select",
                                 !.total = 0, !.active = 0])
       ELSE /\ Step(r, [r EXCEPT !.apc = "select", !.total = 0, !.active = 0])
            /\ UNCHANGED <<wg, starting>>
    /\ UNCHANGED <<bodyVars, leaving, max, totalWorkers, activeWorkers, closed, poolDone, idle, parked,
                   exiting, stopPc, stopTotal, stopI, wosPc, wosSaw, crawlVars>>

\* select case w.work <- fn, polled while a worker is parked in its select.
AddSendWork(r) ==
    /\ r.apc = "select"
    /\ parked > 0
    /\ parked' = parked - 1
    /\ Step(r, [r EXCEPT !.apc = "returned", !.res = "sent", !.wpc = "recv"])
    /\ UNCHANGED <<bodyVars, leaving, max, totalWorkers, activeWorkers, wg, closed, poolDone, starting,
                   idle, exiting, stopPc, stopTotal, stopI, wosPc, wosSaw, crawlVars>>

\* No case of the select can proceed: the goroutine parks.
AddPark(r) ==
    /\ r.apc = "select"
    /\ ~poolDone /\ ~closed /\ parked = 0
    /\ Step(r, [r EXCEPT !.apc = "parked"])
    /\ UNCHANGED <<bodyVars, poolVars, crawlVars>>

\* Add returns without handing the task over; the dispatcher of Run then
\* tests the error (lines 199-201).
AddDropped(r, res) ==
    /\ Step(r, Over([r EXCEPT !.apc = "returned", !.res = res]))
    /\ IF DropDone(r, res)
       THEN /\ waiter' = waiter - 1
            /\ mon' = MonReleased(mon, waiter - 1)
       ELSE UNCHANGED <<waiter, mon>>
    /\ UNCHANGED <<bodyVars, poolVars, sets, closes, reports, runDone, mainPc>>

\* select case <-done, polled.
AddCtxDone(r) ==
    /\ r.apc = "select"
    /\ poolDone
    /\ AddDropped(r, "done")

\* select case <-w.close, polled.
AddClosed(r) ==
    /\ r.apc = "select"
    /\ closed
    /\ AddDropped(r, "closed")

\* A parked Add woken by the close of done or of w.close returns.
AddWoken(r) ==
    /\ r.apc = "woken"
    /\ AddDropped(r, r.res)

\* The close of a channel decides the select of every Add parked on it.
StaysParked(r) == r
WakeDone(r) == IF r.apc = "parked" THEN [r EXCEPT !.apc = "woken", !.res = "done"] ELSE r
WakeClosed(r) == IF r.apc = "parked" THEN [r EXCEPT !.apc = "woken", !.res = "closed"] ELSE r

(***************************************************************************)
(* workerPool.lunch                                                        *)
(***************************************************************************)
LunchStart ==
    /\ starting > 0
    /\ starting' = starting - 1
    /\ totalWorkers' = totalWorkers + 1
    /\ idle' = idle + 1
    /\ UNCHANGED <<bodyVars, leaving, max, activeWorkers, wg, closed, poolDone, parked, exiting, stopPc,
                   stopTotal, stopI, wosPc, wosSaw, tasks, crawlVars>>

\* select case <-done, polled.
WorkerCtxDone ==
    /\ idle > 0
    /\ poolDone
    /\ idle' = idle - 1
    /\ exiting' = exiting + 1
    /\ UNCHANGED <<bodyVars, leaving, max, totalWorkers, activeWorkers, wg, closed, poolDone, starting,
                   parked, stopPc, stopTotal, stopI, wosPc, wosSaw, tasks, crawlVars>>

\* select case <-w.stopWorkers, polled while Stop is parked in its send.
WorkerStopSignal ==
    /\ idle > 0
    /\ stopPc = "sending"
    /\ idle' = idle - 1
    /\ exiting' = exiting + 1
    /\ stopI' = stopI + 1
    /\ stopPc' = "signal"
    /\ UNCHANGED <<bodyVars, leaving, max, totalWorkers, activeWorkers, wg, closed, poolDone, starting,
                   parked, stopTotal, wosPc, wosSaw, tasks, crawlVars>>

\* select case work := <-w.work, polled while an Add is parked in its select.
WorkerRecv(r) ==
    /\ idle > 0
    /\ r.apc = "parked"
    /\ idle' = idle - 1
    /\ Step(r, [r EXCEPT !.apc = "returned", !.res = "sent", !.wpc = "recv"])
    /\ UNCHANGED <<bodyVars, leaving, max, totalWorkers, activeWorkers, wg, closed, poolDone, starting,
                   parked, exiting, stopPc, stopTotal, stopI, wosPc, wosSaw, crawlVars>>

\* No case of the select can proceed: the worker parks.
WorkerPark ==
    /\ idle > 0
    /\ ~poolDone /\ stopPc # "sending"
    /\ \A r \in Tasks : r.apc # "parked"
    /\ idle' = idle - 1
    /\ parked' = parked + 1
    /\ UNCHANGED <<bodyVars, leaving, max, totalWorkers, activeWorkers, wg, closed, poolDone, starting,
                   exiting, stopPc, stopTotal, stopI, wosPc, wosSaw, tasks, crawlVars>>

\* atomic.AddInt64(&w.activeWorkers, 1); work() is entered.
WorkerBegin(r) ==
    /\ r.wpc = "recv"
    /\ activeWorkers' = activeWorkers + 1
    /\ Step(r, [r EXCEPT !.wpc = "run"])
    /\ UNCHANGED <<bodyVars, leaving, max, totalWorkers, wg, closed, poolDone, starting, idle, parked,
                   exiting, stopPc, stopTotal, stopI, wosPc, wosSaw, crawlVars>>

\* work() returned; atomic.AddInt64(&w.activeWorkers, -1); back to the select.
WorkerEnd(r) ==
    /\ r.wpc = "fin"
    /\ activeWorkers' = activeWorkers - 1
    /\ idle' = idle + 1
    /\ Step(r, Over([r EXCEPT !.wpc = "done"]))
    /\ UNCHANGED <<bodyVars, leaving, max, totalWorkers, wg, closed, poolDone, starting, parked, exiting,
                   stopPc, stopTotal, stopI, wosPc, wosSaw, crawlVars>>

\* What WaitOnStop saw when it returned.
Saw(live) ==
    [returned |-> TRUE, live |-> live,
     spawned |-> \E r \in Tasks : r.spawned,
     stopCalled |-> stopPc # "idle",
     cancelled |-> poolDone]
NotReturned ==
    [returned |-> FALSE, live |-> 0, spawned |-> FALSE, stopCalled |-> FALSE,
     cancelled |-> FALSE]

\* The deferred calls of lunch run last in, first out.  Line 94:
\* atomic.AddInt64(&w.totalWorkers, -1).
WorkerLeave ==
    /\ exiting > 0
    /\ exiting' = exiting - 1
    /\ leaving' = leaving + 1
    /\ totalWorkers' = totalWorkers - 1
    /\ UNCHANGED <<bodyVars, max, activeWorkers, wg, closed, poolDone, starting, idle, parked,
                   stopPc, stopTotal, stopI, wosPc, wosSaw, tasks, crawlVars>>

\* Line 91: w.wg.Done(); the goroutine is gone.
WorkerExit ==
    /\ leaving > 0
    /\ leaving' = leaving - 1
    /\ wg' = wg - 1
    /\ stopPc' = Released(stopPc, wg - 1)
    /\ wosPc' = Released(wosPc, wg - 1)
    /\ wosSaw' = IF wosPc = "blocked" /\ wosPc' = "returned"
                 THEN Saw(LiveWorkers - 1) ELSE wosSaw
    /\ UNCHANGED <<bodyVars, max, totalWorkers, activeWorkers, closed, poolDone, starting, idle,
                   parked, exiting, stopTotal, stopI, tasks, crawlVars>>

(***************************************************************************)
(* workerPool.Stop and workerPool.WaitOnStop                               *)
(***************************************************************************)
StopLoad ==
    /\ stopPc = "idle"
    /\ stopTotal' = totalWorkers
    /\ stopI' = 0
    /\ stopPc' = "signal"
    /\ UNCHANGED <<bodyVars, leaving, max, totalWorkers, activeWorkers, wg, closed, poolDone, starting,
                   idle, parked, exiting, wosPc, wosSaw, tasks, crawlVars>>

\* w.stopWorkers <- struct{}{}: taken at once by a parked worker, else Stop
\* parks in the send.
StopSend ==
    /\ stopPc = "signal"
    /\ stopI < stopTotal
    /\ IF parked > 0
       THEN /\ parked' = parked - 1
            /\ exiting' = exiting + 1
            /\ stopI' = stopI + 1
            /\ UNCHANGED stopPc
       ELSE /\ stopPc' = "sending"
            /\ UNCHANGED <<parked, exiting, stopI>>
    /\ UNCHANGED <<bodyVars, leaving, max, totalWorkers, activeWorkers, wg, closed, poolDone, starting,
                   idle, stopTotal, wosPc, wosSaw, tasks, crawlVars>>

\* close(w.close)
StopClose ==
    /\ stopPc = "signal"
    /\ ~(stopI < stopTotal)
    /\ closed' = TRUE
    /\ tasks' = BagOfAll(WakeClosed, tasks)
    /\ stopPc' = "wait"
    /\ UNCHANGED <<bodyVars, leaving, max, totalWorkers, activeWorkers, wg, poolDone, starting, idle,
                   parked, exiting, stopTotal, stopI, wosPc, wosSaw, crawlVars>>

StopWait ==
    /\ stopPc = "wait"
    /\ stopPc' = WaitPc(wg)
    /\ UNCHANGED <<bodyVars, leaving, max, totalWorkers, activeWorkers, wg, closed, poolDone, starting,
                   idle, parked, exiting, stopTotal, stopI, wosPc, wosSaw, tasks,
                   crawlVars>>

WaitOnStop ==
    /\ wosPc = "idle"
    /\ wosPc' = WaitPc(wg)
    /\ wosSaw' = IF wosPc' = "returned" THEN Saw(LiveWorkers) ELSE wosSaw
    /\ UNCHANGED <<bodyVars, leaving, max, totalWorkers, activeWorkers, wg, closed, poolDone, starting,
                   idle, parked, exiting, stopPc, stopTotal, stopI, tasks, crawlVars>>

(***************************************************************************)
(* The clients of a pool: Add calls with plain tasks, the pool's context.  *)
(***************************************************************************)
CallAdd ==
    /\ BagCardinality(tasks) < MaxCalls
    /\ Submit(Task("fn", NoCrawler, stopPc = "returned"))
    /\ UNCHANGED <<bodyVars, poolVars, crawlVars>>

\* The plain task returns.
TaskRun(r) ==
    /\ r.kind = "fn"
    /\ r.wpc = "run"
    /\ Step(r, [r EXCEPT !.wpc = "fin"])
    /\ UNCHANGED <<bodyVars, poolVars, crawlVars>>

\* An Add that is parked in its select, waiting for a worker.
MarkBlocked(r) == [r EXCEPT !.blocked = (r.apc = "parked")]
OnCancel(r) == WakeDone(MarkBlocked(r))

\* The pool's context is cancelled: done is closed, which decides the select
\* of every parked worker and of every parked Add.
PoolCancel ==
    /\ ~poolDone
    /\ poolDone' = TRUE
    /\ exiting' = exiting + parked
    /\ parked' = 0
    /\ tasks' = BagOfAll(OnCancel, tasks)
    /\ UNCHANGED <<bodyVars, leaving, max, totalWorkers, activeWorkers, wg, closed, starting, idle,
                   stopPc, stopTotal, stopI, wosPc, wosSaw, crawlVars>>

\* NewWorkerPool(max, ctx)
NewWorkerPool(m) ==
    /\ max = m
    /\ totalWorkers = 0 /\ activeWorkers = 0 /\ wg = 0
    /\ closed = FALSE /\ poolDone = FALSE
    /\ starting = 0 /\ idle = 0 /\ parked = 0 /\ exiting = 0 /\ leaving = 0
    /\ stopPc = "idle" /\ stopTotal = 0 /\ stopI = 0
    /\ wosPc = "idle" /\ wosSaw = NotReturned

\* No call of CrawlBody by a test.
NoProbe ==
    /\ head = [err |-> FALSE, res |-> Response(0, << >>, << >>)]
    /\ probed = [done |-> FALSE, status |-> ZeroStatus]
NoBody == page = << >> /\ testLinks = [done |-> FALSE, kids |-> << >>] /\ NoProbe

NoRun ==
    /\ sets = << >> /\ waiter = 0
    /\ mon = [start |-> 0, blocked |-> 0, close |-> 0]
    /\ closes = 0 /\ reports = << >> /\ runDone = FALSE

PoolInit ==
    /\ \E m \in 1..MaxPool : NewWorkerPool(m)
    /\ tasks = EmptyBag
    /\ NoRun /\ mainPc = "none"
    /\ NoBody

\* The steps of the pool's goroutines and of the tasks.
PoolProgress ==
    \/ \E r \in Tasks : AddLoadTotal(r)
    \/ \E r \in Tasks : AddLoadActive(r)
    \/ \E r \in Tasks : AddBranch(r)
    \/ \E r \in Tasks : AddSendWork(r)
    \/ \E r \in Tasks : AddPark(r)
    \/ \E r \in Tasks : AddCtxDone(r)
    \/ \E r \in Tasks : AddClosed(r)
    \/ \E r \in Tasks : AddWoken(r)
    \/ \E r \in Tasks : WorkerRecv(r)
    \/ \E r \in Tasks : WorkerBegin(r)
    \/ \E r \in Tasks : TaskRun(r)
    \/ \E r \in Tasks : WorkerEnd(r)
    \/ LunchStart \/ WorkerPark \/ WorkerCtxDone \/ WorkerStopSignal \/ WorkerLeave \/ WorkerExit
    \/ StopSend \/ StopClose \/ StopWait

PoolNext == PoolProgress \/ CallAdd \/ StopLoad \/ WaitOnStop \/ PoolCancel

PoolSpec == PoolInit /\ [][PoolNext]_vars

\* The pool with every goroutine that can step being scheduled in the end;
\* the clients call, and the context is cancelled, when they choose.
PoolFairSpec == PoolSpec /\ WF_vars(PoolProgress)

(***************************************************************************)
(* PageCrawler.Run, executed by the worker that holds the task.            *)
(***************************************************************************)
\* Lines 74-80: the invocation that starts the monitor.
StartsMonitor(pc) == ~pc.child

\* Lines 88-91.
Depth(maxDepth) == IF maxDepth = 0 THEN -1 ELSE maxDepth

\* Line 106.
DepthExceeded(pc) == Depth(pc.MaxDepth) > 0 /\ pc.current > Depth(pc.MaxDepth)
DepthReached(pc) == Depth(pc.MaxDepth) > 0 /\ pc.current >= Depth(pc.MaxDepth)

\* Lines 66-108: entry, with the HasSet made when the crawler holds none
\* (lines 70-72), the seen gate and the depth gate.
RunHas(r) ==
    /\ r.kind = "crawl"
    /\ r.wpc = "run"
    /\ IF StartsMonitor(r.pc)
       THEN /\ waiter' = waiter + 1
            /\ mon' = [mon EXCEPT !.start = mon.start + 1]
       ELSE UNCHANGED <<waiter, mon>>
    /\ sets' = IF r.pc.seen = 0 THEN NewHasSet(sets) ELSE sets
    /\ LET set == IF r.pc.seen = 0 THEN Len(sets') ELSE r.pc.seen IN
       Step(r, [r EXCEPT !.pc.MaxDepth = Depth(r.pc.MaxDepth),
                         !.pc.seen = set,
                         !.wpc = IF Has(sets'[set], Trimmed(r.pc.Target.Path))
                                    \/ DepthReached(r.pc)
                                 THEN "ret" ELSE "claim"])
    /\ UNCHANGED <<bodyVars, poolVars, closes, reports, runDone, mainPc>>

\* Line 111.
RunClaim(r) ==
    /\ r.wpc = "claim"
    /\ sets' = [sets EXCEPT ![r.pc.seen] = Add(@, Trimmed(r.pc.Target.Path))]
    /\ Step(r, [r EXCEPT !.wpc = "ctx"])
    /\ UNCHANGED <<bodyVars, poolVars, waiter, mon, closes, reports, runDone, mainPc>>

\* Lines 121-130: the report the invocation starts from.
Resolve(pc) ==
    IF ~pc.hasReport
    THEN LinkReport(pc.Target, Probed[pc.Target], << >>)
    ELSE pc.report

\* Lines 133-161: the report as it is sent, and whether it is sent by one of
\* the early returns ("send") or delivered with the children ("deliver").
\* Line 147: report.Status.IsLive = false.
NotDowngraded(status) == status
Downgraded(status) == [status EXCEPT !.IsLive = FALSE]

ExploredFetching(pc, report) ==
    IF ~report.Status.IsLive THEN [report |-> report, wpc |-> "send"]
    ELSE IF Crawled[pc.Target].err # "nil"
    THEN [report |-> [report EXCEPT !.Status = Downgraded(report.Status)], wpc |-> "send"]
    ELSE [report |-> [report EXCEPT !.PointsTo = Crawled[pc.Target].kids],
          wpc |-> "deliver"]
ExploredSilent(pc, report) ==
    IF ~report.Status.IsLive THEN [report |-> report, wpc |-> "ret"]
    ELSE IF report.Status.IsLive /\ ~report.Status.IsCrawlable
    THEN [report |-> report, wpc |-> "send"]
    ELSE IF Crawled[pc.Target].err # "nil"
    THEN [report |-> [report EXCEPT !.Status.IsLive = FALSE], wpc |-> "ret"]
    ELSE [report |-> [report EXCEPT !.PointsTo = Crawled[pc.Target].kids],
          wpc |-> "deliver"]
Explored(pc, report) ==
    IF ~report.Status.IsLive THEN [report |-> report, wpc |-> "send"]
    ELSE IF report.Status.IsLive /\ ~report.Status.IsCrawlable
    THEN [report |-> report, wpc |-> "send"]
    ELSE IF Crawled[pc.Target].err # "nil"
    THEN [report |-> [report EXCEPT !.Status = Downgraded(report.Status)], wpc |-> "send"]
    ELSE [report |-> [report EXCEPT !.PointsTo = Crawled[pc.Target].kids],
          wpc |-> "deliver"]

\* Lines 113-115: the select takes case <-ctx.Done() when ctx is cancelled,
\* its default otherwise.
CtxFired(done) == done

\* Lines 113-161: the cancellation check, the status, the body and the
\* children, up to the send of the report.
RunCtx(r) ==
    /\ r.wpc = "ctx"
    /\ IF CtxFired(runDone)
       THEN Step(r, [r EXCEPT !.wpc = "ret"])
       ELSE LET e == Explored(r.pc, Resolve(r.pc)) IN
            Step(r, [r EXCEPT !.report = e.report, !.wpc = e.wpc])
    /\ UNCHANGED <<bodyVars, poolVars, crawlVars>>

\* Lines 170-177: the kids the range passes on to the check in seen.
Candidates(kids) ==
    {i \in 1..Len(kids) : TrimSuffix(kids[i].Path.Path) # << >> /\ kids[i].Status.IsCrawlable}

\* reports <- report (lines 134, 140, 148: "send"; line 164: "deliver"), with
\* the receive of main's range.  A send on the closed channel panics.
RunSkipSend(r) ==
    /\ r.wpc \in {"send", "deliver"}
    /\ Step(r, [r EXCEPT !.todo = Candidates(r.report.PointsTo),
                         !.wpc = IF r.wpc = "send" \/ Candidates(r.report.PointsTo) = {}
                                 THEN "ret" ELSE "loop"])
    /\ UNCHANGED <<bodyVars, poolVars, sets, waiter, mon, closes, reports, runDone, mainPc>>
RunSend(r) ==
    /\ r.wpc \in {"send", "deliver"}
    /\ IF closes > 0
       THEN /\ Step(r, [r EXCEPT !.wpc = "panic"])
            /\ UNCHANGED reports
       ELSE /\ mainPc = "range"
            /\ reports' = Append(reports, r.report)
            /\ Step(r, [r EXCEPT !.todo = Candidates(r.report.PointsTo),
                                 !.wpc = IF r.wpc = "send" \/ Candidates(r.report.PointsTo) = {}
                                         THEN "ret" ELSE "loop"])
    /\ UNCHANGED <<bodyVars, poolVars, sets, waiter, mon, closes, runDone, mainPc>>

\* Lines 188-197.
KidCrawlerOfParent(pc, k) ==
    [PageCrawler(pc.MaxDepth, k.Path, pc.current + 1, TRUE, TRUE,
                 LinkReport(pc.Target, k.Status, << >>)) EXCEPT !.seen = pc.seen]
KidCrawlerOwnSet(pc, k) == PageCrawler(pc.MaxDepth, k.Path, pc.current + 1, TRUE, TRUE, k)
KidCrawler(pc, k) ==
    [PageCrawler(pc.MaxDepth, k.Path, pc.current + 1, TRUE, TRUE, k) EXCEPT !.seen = pc.seen]

\* Line 183: the counter after a kid is counted.
NotCounted(counter) == counter
Counted(counter) == counter + 1

\* Lines 169-203: one round of the range over report.PointsTo that reaches
\* the check in seen (line 179).  The goroutine it starts is the Add call of
\* the new task.
RunLoop(r) ==
    /\ r.wpc = "loop"
    /\ \E i \in r.todo :
        LET kid == r.report.PointsTo[i]
            next == [r EXCEPT !.todo = r.todo \ {i},
                              !.wpc = IF r.todo \ {i} = {} THEN "ret" ELSE "loop"]
        IN IF ~Has(sets[r.pc.seen], TrimSuffix(kid.Path.Path))
           THEN /\ waiter' = Counted(waiter)
                /\ tasks' = (tasks (-) SetToBag({r})) (+) SetToBag({next})
                                 (+) SetToBag({Task("crawl", KidCrawler(r.pc, kid), FALSE)})
           ELSE /\ Step(r, next)
                /\ UNCHANGED waiter
    /\ UNCHANGED <<bodyVars, poolVars, sets, mon, closes, reports, runDone, mainPc>>

\* Line 82: the deferred waiter.Done(); Run returns to lunch.
RunReturnTwice(r) ==
    /\ r.wpc = "ret"
    /\ waiter' = waiter - 2
    /\ mon' = MonReleased(mon, waiter - 2)
    /\ Step(r, [r EXCEPT !.wpc = "fin", !.report = ZeroReport, !.todo = {}])
    /\ UNCHANGED <<bodyVars, poolVars, sets, closes, reports, runDone, mainPc>>
RunReturn(r) ==
    /\ r.wpc = "ret"
    /\ waiter' = waiter - 1
    /\ mon' = MonReleased(mon, waiter - 1)
    /\ Step(r, [r EXCEPT !.wpc = "fin", !.report = ZeroReport, !.todo = {}])
    /\ UNCHANGED <<bodyVars, poolVars, sets, closes, reports, runDone, mainPc>>

\* Lines 76-79: the monitor calls waiter.Wait().
MonitorWait ==
    /\ mon.start > 0
    /\ mon' = IF waiter = 0
              THEN [mon EXCEPT !.start = mon.start - 1, !.close = mon.close + 1]
              ELSE [mon EXCEPT !.start = mon.start - 1, !.blocked = mon.blocked + 1]
    /\ UNCHANGED <<bodyVars, poolVars, tasks, sets, waiter, closes, reports, runDone, mainPc>>

\* close(reports)
MonitorClose ==
    /\ mon.close > 0
    /\ mon' = [mon EXCEPT !.close = mon.close - 1]
    /\ closes' = closes + 1
    /\ UNCHANGED <<bodyVars, poolVars, tasks, sets, waiter, reports, runDone, mainPc>>

\* The ctx passed to Run is cancelled.
RunCancel ==
    /\ ~runDone
    /\ runDone' = TRUE
    /\ UNCHANGED <<bodyVars, poolVars, tasks, sets, waiter, mon, closes, reports, mainPc>>

(***************************************************************************)
(* main: the pool, the root crawler on "/", pool.Add of its Run, the range *)
(* over the reports.                                                       *)
(***************************************************************************)
DepthFlag == -1

RootTarget == URL(ServerHost, IndexPath)
RootCrawler == PageCrawler(DepthFlag, RootTarget, 0, FALSE, FALSE, ZeroReport)
IsRoot(r) == r.kind = "crawl" /\ ~r.pc.child

\* pool.Add has returned: main enters `for report := range reports`.
MainRange ==
    /\ mainPc = "add"
    /\ \E r \in Tasks : IsRoot(r) /\ r.apc = "returned"
    /\ mainPc' = "range"
    /\ UNCHANGED <<bodyVars, poolVars, tasks, sets, waiter, mon, closes, reports, runDone>>

\* The range ends when the channel is closed.
MainEnd ==
    /\ mainPc = "range"
    /\ closes > 0
    /\ mainPc' = "end"
    /\ UNCHANGED <<bodyVars, poolVars, tasks, sets, waiter, mon, closes, reports, runDone>>

\* The deferred pool.Stop() of main.
MainStop ==
    /\ mainPc = "end"
    /\ StopLoad

\* main with a given root crawler.
CrawlInit(crawler) ==
    /\ \E m \in 1..MaxPool : NewWorkerPool(m)
    /\ tasks = SetToBag({Task("crawl", crawler, FALSE)})
    /\ NoRun /\ mainPc = "add"
    /\ NoBody

Init == CrawlInit(RootCrawler)

\* The steps of the program when nothing is cancelled.
Progress ==
    \/ \E r \in Tasks : AddLoadTotal(r)
    \/ \E r \in Tasks : AddLoadActive(r)
    \/ \E r \in Tasks : AddBranch(r)
    \/ \E r \in Tasks : AddSendWork(r)
    \/ \E r \in Tasks : AddPark(r)
    \/ \E r \in Tasks : WorkerRecv(r)
    \/ \E r \in Tasks : WorkerBegin(r)
    \/ \E r \in Tasks : RunHas(r)
    \/ \E r \in Tasks : RunClaim(r)
    \/ \E r \in Tasks : RunCtx(r)
    \/ \E r \in Tasks : RunSend(r)
    \/ \E r \in Tasks : RunLoop(r)
    \/ \E r \in Tasks : RunReturn(r)
    \/ \E r \in Tasks : WorkerEnd(r)
    \/ LunchStart \/ WorkerPark \/ MonitorWait \/ MonitorClose \/ MainRange \/ MainEnd
    \/ MainStop \/ StopSend \/ WorkerStopSignal \/ WorkerLeave \/ WorkerExit \/ StopClose \/ StopWait

\* The steps cancellation enables.
Cancelled ==
    \/ \E r \in Tasks : AddCtxDone(r)
    \/ \E r \in Tasks : AddWoken(r)
    \/ WorkerCtxDone

Next == Progress \/ Cancelled \/ RunCancel \/ PoolCancel

Spec == Init /\ [][Next]_vars

\* A run that is never cancelled, every goroutine that can step being
\* scheduled in the end.
LiveSpec == Init /\ [][Progress]_vars /\ WF_vars(Progress)

(***************************************************************************)
(* TestBodyCrawler: CrawlBody applied to a page, with no pool and no run.  *)
(***************************************************************************)
\* The target of the test, http://mombo.com, which no server answers for.
MomboTarget == URL("mombo.com", << >>)

\* The pages: up to MaxLinks anchors, each a reference to /services or to
\* /contacts, the absolute form of /services, or a link to another host.
Anchors ==
    {Href(FALSE, "", ServicesPath), Href(FALSE, "", ContactsPath),
     Href(TRUE, MomboTarget.Host, ServicesPath), Href(TRUE, ExternalHost, WombatPath)}
Pages == UNION {[1..n -> Anchors] : n \in 0..MaxLinks}

\* links, err := crawler.CrawlBody(baseClient, target, bytes.NewReader(page))
TestBodyCrawler ==
    /\ ~testLinks.done
    /\ testLinks' = [done |-> TRUE, kids |-> CrawlBody(MomboTarget, page)]
    /\ UNCHANGED <<poolVars, tasks, crawlVars, page, head, probed>>

BodyInit ==
    /\ NewWorkerPool(1) /\ tasks = EmptyBag /\ NoRun /\ mainPc = "none"
    /\ page \in Pages
    /\ testLinks = [done |-> FALSE, kids |-> << >>]
    /\ NoProbe
BodyNext == TestBodyCrawler
BodySpec == BodyInit /\ [][BodyNext]_vars

(***************************************************************************)
(* getURLStatus applied to what a client returns, with no pool and no run. *)
(***************************************************************************)
\* What client.Head returns: a transport error, or a response with a status
\* code at and around the bounds of 200-299 and a Content-Type.
Codes == {100, 199, 200, 204, 299, 300, 404, 500}
ContentTypes ==
    {<< >>, <<"text/html">>, <<"text/xhtml">>, <<"application/json">>,
     <<"text/html", "charset=utf-8">>, <<"text/plain">>}
Heads ==
    {[err |-> e, res |-> Response(code, ctype, << >>)] :
        e \in BOOLEAN, code \in Codes, ctype \in ContentTypes}

\* report.Status = getURLStatus(client, target)
Probe ==
    /\ ~probed.done
    /\ probed' = [done |-> TRUE, status |-> StatusFrom(head)]
    /\ UNCHANGED <<poolVars, tasks, crawlVars, page, testLinks, head>>

ProbeInit ==
    /\ NewWorkerPool(1) /\ tasks = EmptyBag /\ NoRun /\ mainPc = "none"
    /\ page = << >> /\ testLinks = [done |-> FALSE, kids |-> << >>]
    /\ head \in Heads
    /\ probed = [done |-> FALSE, status |-> ZeroStatus]
ProbeNext == Probe
ProbeSpec == ProbeInit /\ [][ProbeNext]_vars

\* Uncancelled runs from "/" of either server, for every value of the depth
\* flag up to MaxDepth.
Roots == {URL(ServerHost, IndexPath), URL(GraphHost, IndexPath)}
DepthInit ==
    \E target \in Roots, depth \in -1..MaxDepth :
        CrawlInit(PageCrawler(depth, target, 0, FALSE, FALSE, ZeroReport))
DepthSpec == DepthInit /\ [][Progress]_vars

\* Runs, with the cancellation of Run's ctx at any moment, from a crawlable
\* page, from a page that is not html, from a page whose GET fails, from a
\* host that does not answer and from a page that links to a page whose GET
\* fails.
Starts ==
    {URL(ServerHost, IndexPath), URL(ServerHost, JsonCardPath),
     URL(ServerHost, WombatPath), URL(ExternalHost, IndexPath),
     URL(GraphHost, ServicesPath)}
StartsInit ==
    \E target \in Starts :
        CrawlInit(PageCrawler(DepthFlag, target, 0, FALSE, FALSE, ZeroReport))
StartsSpec == StartsInit /\ [][Next]_vars

\* Uncancelled runs of unbounded depth from "/", from /contacts, a page that
\* links to "/", from a page that is not html and from a host that does not
\* answer, every goroutine that can step being scheduled in the end.
Entries ==
    {URL(ServerHost, IndexPath), URL(ServerHost, ContactsPath),
     URL(ServerHost, JsonCardPath), URL(ExternalHost, IndexPath)}
EntriesInit ==
    \E target \in Entries :
        CrawlInit(PageCrawler(DepthFlag, target, 0, FALSE, FALSE, ZeroReport))
EntriesSpec == EntriesInit /\ [][Progress]_vars /\ WF_vars(Progress)

\* The run with the pool's context cancelled at any moment, every goroutine
\* that can step being scheduled in the end.
DropNext == Progress \/ Cancelled \/ PoolCancel
DropSpec == Init /\ [][DropNext]_vars /\ WF_vars(Progress \/ Cancelled)

\* No child has been dispatched.
NoKid == \A r \in Tasks : ~(r.kind = "crawl" /\ r.pc.child)

\* The run with a context cancelled before any child is dispatched, or never,
\* every goroutine that can step being scheduled in the end.
EarlyRunCancel == NoKid /\ RunCancel
EarlyPoolCancel == NoKid /\ PoolCancel
EarlyNext == Progress \/ Cancelled \/ EarlyRunCancel \/ EarlyPoolCancel
EarlySpec == Init /\ [][EarlyNext]_vars /\ WF_vars(Progress \/ Cancelled)

(***************************************************************************)
(* Properties of the worker pool (PoolSpec, PoolFairSpec).                 *)
(***************************************************************************)

\* C5: the number of live workers never exceeds the configured maximum.
WorkersWithinMax == LiveWorkers <= max

\* C7: a task passed to Add after Stop() has returned is never handed to a
\* worker, and that Add spawns no worker.
AddAfterStopDrops ==
    \A r \in Tasks : r.afterStop => (~r.spawned /\ r.wpc = "none")

\* C8: a call to Stop() returns in the end.
StopReturns == (stopPc # "idle") ~> (stopPc = "returned")

\* C9, first half: WaitOnStop does not return when workers have been spawned
\* and Stop() has not been called.
WaitOnStopNeedsStop ==
    wosSaw.returned => ~(wosSaw.spawned /\ ~wosSaw.stopCalled)

\* C9, second half: a WaitOnStop that has been called returns once Stop()
\* has returned.
WaitOnStopReturnsAfterStop ==
    (stopPc = "returned" /\ wosPc # "idle") ~> (wosPc = "returned")

\* C9: WaitOnStop() blocks until a Stop() completes: it never returns when
\* workers have been spawned and Stop() has not been called, and it returns
\* once Stop() has returned.
WaitOnStopFollowsStop == []WaitOnStopNeedsStop /\ WaitOnStopReturnsAfterStop

\* C10: an Add that was parked in its select when the pool's context was
\* cancelled returns by the done case, and its task is never handed to a
\* worker.
CancelAbandonsBlockedAdd ==
    \A r \in Tasks : r.blocked =>
        /\ r.wpc = "none"
        /\ r.apc \in {"woken", "returned"}
        /\ r.res = "done"

\* C10, the case: an Add that was parked when the context was cancelled has
\* returned, a worker being there to take tasks after the cancellation.
BlockedAddReturned ==
    /\ \E r \in Tasks : r.blocked /\ r.apc = "returned"
    /\ idle > 0

(***************************************************************************)
(* Properties of a crawl run (Spec, LiveSpec).                             *)
(***************************************************************************)
Reported(path) == {i \in 1..Len(reports) : Trimmed(reports[i].Path.Path) = path}

\* Invocations between the entry of Run and its return.
InRun == {r \in Tasks : r.wpc \in {"claim", "ctx", "send", "deliver", "loop", "ret"}}

\* Tasks that have sent no report yet and can still run, or that sent on the
\* closed stream.
Unfinished == {r \in Tasks : r.apc # "returned" \/ r.wpc \notin {"none", "fin", "done"}}

\* C1: no normalized path has more than one report on the stream.
OneReportPerPath ==
    \A i, j \in 1..Len(reports) :
        Trimmed(reports[i].Path.Path) = Trimmed(reports[j].Path.Path) => i = j

\* C2: the stream is closed at most once, and from the moment the monitor is
\* released the counter is zero and no invocation runs, waits to run or
\* sends.
ClosedOnceAtZero ==
    /\ closes <= 1
    /\ (closes > 0 \/ mon.close > 0) => (waiter = 0 /\ Unfinished = {})

\* C2, the case: the stream is closed after the run reported its pages.
ClosedAfterReports == closes = 1 /\ Len(reports) >= 3 /\ waiter = 0

\* C3: the counter returns to zero and the stream is closed in the end.
RunTerminates == <>(closes = 1 /\ waiter = 0)

\* C3, the case: the run ended with the stream closed, main having left its
\* range, under a pool of one worker slot with kids submitted while it was
\* taken.
TerminatedSaturated ==
    /\ mainPc = "end" /\ closes = 1 /\ max = 1
    /\ \E r \in Tasks : r.kind = "crawl" /\ r.pc.child /\ r.wpc = "done" /\ ~r.spawned

\* C4: the crawl of the tests' site from "/" ends with exactly four reports,
\* for "/", "/services", "/contacts" and "/jsoncard", the last one live and
\* not crawlable, and none for the external link.
FourReports ==
    (closes > 0 /\ ~runDone /\ ~poolDone) =>
        /\ Len(reports) = 4
        /\ \A p \in {IndexPath, ServicesPath, ContactsPath, JsonCardPath} :
               Cardinality(Reported(p)) = 1
        /\ \A i \in Reported(JsonCardPath) :
               reports[i].Status.IsLive /\ ~reports[i].Status.IsCrawlable
        /\ \A i \in 1..Len(reports) : reports[i].Path.Host = ServerHost

\* C6: the invocations of Run that are active never outnumber the pool's
\* maximum.
ActiveWithinMax == Count(InRun) <= max

\* Child submissions the pool has dropped.
Dropped == {r \in Tasks : r.kind = "crawl" /\ r.pc.child /\ r.apc = "returned"
                          /\ r.res \in {"done", "closed"}}

\* C11: once the pool has dropped a child submission, the counter returns to
\* zero and the stream is closed in the end.
DroppedStillCloses == (Dropped # {}) ~> (closes = 1 /\ waiter = 0)

\* A cancellation has fired (under EarlySpec: before any dispatch).
Fired == runDone \/ poolDone

\* The stream carries no report, or the root's report only.
RootOnly ==
    /\ Len(reports) <= 1
    /\ \A i \in 1..Len(reports) : reports[i].Path = RootTarget

\* C12: when a cancellation fires before any child has been dispatched, the
\* stream never carries more than the root's report and is closed in the
\* end.
EarlyCancelClosesRootOnly ==
    /\ [](Fired => RootOnly)
    /\ Fired ~> (closes = 1)

\* C13: once the ctx of the run is cancelled, no invocation submits a child:
\* no step taken after the cancellation adds a task.
NoDispatchAfterCancel ==
    [][runDone => BagCardinality(tasks') <= BagCardinality(tasks)]_vars

\* The root invocation of the run and the depth limit it was given.
Root == CHOOSE r \in Tasks : IsRoot(r)
Limit == Depth(Root.pc.MaxDepth)

\* The seen set of the run: the HasSet the root invocation holds.
seen == IF Root.pc.seen = 0 THEN {} ELSE sets[Root.pc.seen]

\* Invocations at or past the claim of their path (line 111), not yet returned.
Claiming == {r \in Tasks : r.wpc \in {"claim", "ctx", "send", "deliver", "loop", "panic"}}

\* C14: with depth limit 1 no child invocation claims its path or sends, the
\* seen set holds the root's path only and every report is the root's.
DepthOneRootOnly ==
    Limit = 1 =>
        /\ \A r \in Claiming : IsRoot(r)
        /\ seen \subseteq {Trimmed(Root.pc.Target.Path)}
        /\ Len(reports) <= 1
        /\ \A i \in 1..Len(reports) : reports[i].Path = Root.pc.Target

\* C14, the case: a run with depth limit 1 has ended after its child
\* invocations ran and returned, with the root's report.
DepthOneEnded ==
    /\ Limit = 1 /\ closes = 1 /\ Len(reports) = 1
    /\ Cardinality({r \in Tasks : r.kind = "crawl" /\ r.pc.child /\ r.wpc = "done"}) >= 2

\* The pages a crawled page dispatches to (lines 169-203): the crawlable
\* entries of its report with a path other than the root's.
Links(target) ==
    {Crawled[target].kids[i].Path : i \in Candidates(Crawled[target].kids)}

\* The pages at most n links away from target.
RECURSIVE Within(_, _)
Within(target, n) ==
    IF n = 0 THEN {target}
    ELSE LET near == Within(target, n - 1) IN near \cup UNION {Links(t) : t \in near}

\* The normalized paths of a set of pages, and those reported so far.
Paths(pages) == {Trimmed(t.Path) : t \in pages}
ReportedPaths == {Trimmed(reports[i].Path.Path) : i \in 1..Len(reports)}

\* C15: when an uncancelled run has ended, the reported paths are exactly
\* those of the pages within Limit links of the root (within any number of
\* links when the limit is not positive).
ReportsWithinLimit ==
    closes = 1 =>
        ReportedPaths = Paths(Within(Root.pc.Target,
                                     IF Limit > 0 THEN Limit ELSE Cardinality(Targets)))

\* The outcome of the run in which every page is first claimed by an
\* invocation on a shortest chain of links from the root: the gate of line 106
\* stops invocations Limit links away.
Outcome ==
    Paths(Within(Root.pc.Target, IF Limit > 0 THEN Limit - 1 ELSE Cardinality(Targets)))

\* C16: every uncancelled run of the same root, pages and depth limit ends
\* with the same set of reported paths, whatever the pool size and the
\* interleaving.
SameOutcome == closes = 1 => ReportedPaths = Outcome

\* C16, the two outcomes of one input: the second server crawled with limit
\* 3 ends with /c reported, and ends without it.
EndedWithC ==
    /\ closes = 1 /\ Limit = 3 /\ Root.pc.Target.Host = GraphHost
    /\ Trimmed(CPath) \in ReportedPaths
EndedWithoutC ==
    /\ closes = 1 /\ Limit = 3 /\ Root.pc.Target.Host = GraphHost
    /\ Trimmed(CPath) \notin ReportedPaths

\* The number of invocations at one of the given positions of Run.
Positions(ps) ==
    BagCardinality([r \in {t \in DOMAIN tasks : t.wpc \in ps} |-> tasks[r]])

\* The invocations at the check of lines 113-116, which follows the claim, and
\* those at a send of their report.
Checking == Positions({"ctx"})
Sending == Positions({"send", "deliver"})
\* One report is appended to those received by main.
EmitsOne == Len(reports') = Len(reports) + 1 /\ SubSeq(reports', 1, Len(reports)) = reports

\* C17, as stated: every invocation that has claimed its path goes on to one
\* send of its report, that send emits one report, and nothing else emits.
ClaimedEmitsOnce ==
    [][/\ Checking' < Checking => Sending' = Sending + 1
       /\ Sending' < Sending => EmitsOne
       /\ reports' # reports => EmitsOne /\ Sending' < Sending]_vars

\* C17: every invocation that has claimed its path and finds ctx not
\* cancelled at lines 113-116 goes on to one send of its report, that send
\* emits one report, and nothing else emits.
UncancelledClaimedEmitsOnce ==
    [][/\ (Checking' < Checking /\ ~runDone) => Sending' = Sending + 1
       /\ Sending' < Sending => EmitsOne
       /\ reports' # reports => EmitsOne /\ Sending' < Sending]_vars

\* C17, the case: the invocation for a page whose GET fails has claimed the
\* path, emitted its one report, not live, and the run has ended.
FetchFailureReported ==
    /\ closes = 1 /\ seen = {Trimmed(WombatPath)} /\ Len(reports) = 1
    /\ reports[1].Path = URL(ServerHost, WombatPath) /\ ~reports[1].Status.IsLive
    /\ reports[1].Status.IsCrawlable

\* C18: CrawlBody returns no two entries with the same resolved URL.
OneEntryPerURL ==
    testLinks.done =>
        \A i, j \in 1..Len(testLinks.kids) :
            testLinks.kids[i].Path = testLinks.kids[j].Path => i = j

\* C19: every report received, every entry of a report's PointsTo, sent or
\* about to be, and every invocation submitted has the host of the root's
\* target.
SameHostOnly ==
    LET host == Root.pc.Target.Host
        Confined(report) ==
            \A k \in 1..Len(report.PointsTo) : report.PointsTo[k].Path.Host = host
    IN /\ \A i \in 1..Len(reports) : reports[i].Path.Host = host /\ Confined(reports[i])
       /\ \A r \in Tasks : r.kind = "crawl" => r.pc.Target.Host = host /\ Confined(r.report)

\* C19, the case: the report of /contacts, whose page links to another host,
\* has been received with its three entries of the server.
ContactsReported ==
    \E i \in 1..Len(reports) :
        reports[i].Path = URL(ServerHost, ContactsPath) /\ Len(reports[i].PointsTo) = 3

\* The child invocations counted and handed to a goroutine by the range of
\* lines 169-203 whose pool.Add (line 199) has not been called yet, for a
\* path that is in seen by now.
ClaimedUnsubmitted ==
    {r \in Tasks : /\ r.kind = "crawl" /\ r.pc.child /\ r.apc = "load"
                   /\ Has(seen, TrimSuffix(r.pc.Target.Path))}

\* C20: no invocation is submitted to the pool for a path that is in seen:
\* pool.Add is never called for one of them.
NoSubmitOnceSeen ==
    [][\A r \in ClaimedUnsubmitted : CopiesIn(r, tasks') >= CopiesIn(r, tasks)]_vars

\* The crawlable entries of a crawled page's report (line 176), whatever
\* their path, and the pages reached from target by n such links.
CrawlableLinks(target) ==
    {Crawled[target].kids[i].Path :
        i \in {k \in 1..Len(Crawled[target].kids) : Crawled[target].kids[k].Status.IsCrawlable}}
RECURSIVE Reach(_, _)
Reach(target, n) ==
    IF n = 0 THEN {target}
    ELSE LET near == Reach(target, n - 1) IN
         near \cup UNION {CrawlableLinks(t) : t \in near}

\* C21: in an uncancelled run of unbounded depth every crawlable page reached
\* from the root through crawlable pages is reported in the end, the page "/"
\* included when the run starts elsewhere.
ReachableReported ==
    <>(Paths(Reach(Root.pc.Target, Cardinality(Targets))) \subseteq ReportedPaths)

\* The pages probed live and crawlable whose body cannot be fetched.
FetchFails(target) ==
    Probed[target].IsLive /\ Probed[target].IsCrawlable /\ Crawled[target].err # "nil"

\* The report of a page whose fetch failed: the probed status with IsLive
\* false, no children.
FailedReport(target) ==
    LinkReport(target, Status(FALSE, TRUE, Probed[target].LastStatus, Probed[target].Reason), << >>)

\* C22: the invocation of a page whose fetch fails sends the page's probed
\* status with IsLive false and nothing else changed, with no children, never
\* comes to the range over children, and an uncancelled run reports the other
\* pages all the same.
FetchFailureLocal ==
    /\ \A r \in Tasks :
          (r.kind = "crawl" /\ FetchFails(r.pc.Target)) =>
              /\ r.wpc \notin {"deliver", "loop"}
              /\ r.wpc = "send" => r.report = FailedReport(r.pc.Target)
              /\ r.todo = {}
    /\ \A i \in 1..Len(reports) :
          FetchFails(reports[i].Path) => reports[i] = FailedReport(reports[i].Path)
    /\ (closes = 1 /\ ~runDone /\ ~poolDone /\ Root.pc.Target = URL(GraphHost, ServicesPath)) =>
          ReportedPaths = {ServicesPath, WombatPath, CPath}

\* C22, the case: the run from the page that links to /wombat has ended with
\* the report of /wombat, not live, and the reports of the two other pages.
FailedChildReported ==
    /\ closes = 1 /\ Len(reports) = 3
    /\ \E i \in 1..3 : reports[i] = FailedReport(URL(GraphHost, WombatPath))
    /\ \E i \in 1..3 : reports[i].Path = URL(GraphHost, CPath) /\ reports[i].Status.IsLive

\* The invocations whose status, precomputed or probed (lines 121-130), is
\* not live, or live and not crawlable.
Terminal == {r \in Tasks : r.kind = "crawl" /\ ~Resolve(r.pc).Status.IsCrawlable}

\* C23: the invocation of a page that is not live, or not crawlable, sends the
\* status as resolved, untouched by a fetch, with no children, never comes to
\* the range over children, and the run ends with the stream closed.
TerminalLocal ==
    /\ [](/\ \A r \in Terminal :
               /\ r.wpc \notin {"deliver", "loop"}
               /\ r.wpc = "send" => r.report = Resolve(r.pc) /\ r.report.PointsTo = << >>
               /\ r.todo = {}
          /\ \A i \in 1..Len(reports) :
               ~Probed[reports[i].Path].IsCrawlable =>
                   reports[i] = LinkReport(reports[i].Path, Probed[reports[i].Path], << >>))
    /\ <>(closes = 1 /\ waiter = 0 /\ Unfinished = {})

\* C23, the case: the run from the page that is not html has ended with its
\* one report, live, not crawlable, without children.
NonHTMLReported ==
    /\ closes = 1 /\ Len(reports) = 1
    /\ reports[1] = LinkReport(URL(ServerHost, JsonCardPath),
                               Status(TRUE, FALSE, 200, "ErrNonHTMLURL"), << >>)

\* C24: an invocation in its range over the children has its report on the
\* stream already, every child invocation counted is listed in a report
\* received, and every report other than the root's comes after a report that
\* lists its path.
ParentReportedFirst ==
    LET Lists(j, path) ==
            \E k \in 1..Len(reports[j].PointsTo) : reports[j].PointsTo[k].Path = path
    IN /\ \A r \in Tasks : r.wpc = "loop" => \E j \in 1..Len(reports) : reports[j] = r.report
       /\ \A r \in Tasks :
              (r.kind = "crawl" /\ r.pc.child) =>
                  \E j \in 1..Len(reports) : Lists(j, r.pc.Target)
       /\ \A i \in 1..Len(reports) :
              reports[i].Path # Root.pc.Target =>
                  \E j \in 1..(i - 1) : Lists(j, reports[i].Path)

\* C24, the case: the report of /services has come after the report of "/",
\* which lists it.
ServicesAfterIndex ==
    /\ Len(reports) >= 2 /\ reports[1].Path = RootTarget
    /\ \E i \in 2..Len(reports) : reports[i].Path = URL(ServerHost, ServicesPath)

\* The invocations counted and not finished: the root from line 75 to its
\* deferred Done, a child from line 183 to its deferred Done or to the Done of
\* its dispatcher (line 200).
Outstanding ==
    BagCardinality(
        [r \in {t \in DOMAIN tasks :
                   /\ t.kind = "crawl"
                   /\ IF t.pc.child
                      THEN t.wpc \notin {"fin", "done"} /\ t \notin Dropped
                      ELSE t.wpc \in {"claim", "ctx", "send", "deliver", "loop", "ret", "panic"}}
            |-> tasks[r]])

\* C25: the counter is never negative and never below the number of
\* invocations counted and not finished.
CounterCoversOutstanding == waiter >= 0 /\ waiter >= Outstanding

\* C25, the case: a child's submission was dropped while other invocations
\* are still counted; the counter still holds the count of the dropped one.
DroppedWhileOutstanding ==
    Dropped # {} /\ Outstanding >= 2 /\ waiter = Outstanding + Cardinality(Dropped)

\* C26: one HasSet is made in a run, every invocation past its entry holds
\* it, and so does every child from its dispatch on; no step takes an entry
\* out of it, and it grows only by the path of an invocation at its claim.
SeenSharedAndGrowing ==
    /\ [](/\ Len(sets) <= 1
          /\ \A r \in Tasks :
                (r.kind = "crawl" /\ (r.pc.child \/ r.wpc \notin {"none", "recv", "run"})) =>
                    r.pc.seen = 1 /\ Len(sets) = 1)
    /\ [][/\ Len(sets') >= Len(sets)
          /\ \A h \in 1..Len(sets) :
                /\ sets[h] \subseteq sets'[h]
                /\ sets'[h] # sets[h] =>
                      \E r \in Tasks :
                          /\ r.wpc = "claim" /\ r.pc.seen = h
                          /\ sets'[h] = sets[h] \cup {Trimmed(r.pc.Target.Path)}]_vars

\* C26, the case: a child invocation has added its path to the set that holds
\* the root's path.
ChildClaimedInRootSet ==
    /\ Len(sets) = 1 /\ Trimmed(RootTarget.Path) \in sets[1]
    /\ \E r \in Tasks : /\ r.kind = "crawl" /\ r.pc.child /\ r.wpc = "ctx"
                        /\ Trimmed(r.pc.Target.Path) \in sets[r.pc.seen]

\* C27: every child invocation holds its own entry of the parent's report,
\* with that entry's path as target and the status probed for it; it is
\* started one level below an invocation in its range that lists the entry;
\* and what an invocation sends carries its own target and status.
KidsAreTheirOwn ==
    /\ [](\A r \in Tasks :
            /\ (r.kind = "crawl" /\ r.pc.child) =>
                  /\ r.pc.hasReport
                  /\ r.pc.report = LinkReport(r.pc.Target, Probed[r.pc.Target], << >>)
            /\ r.wpc \in {"send", "deliver"} =>
                  /\ r.report.Path = r.pc.Target
                  /\ r.report.Status \in {Probed[r.pc.Target], Downgraded(Probed[r.pc.Target])})
    /\ [][\A kid \in BagToSet(tasks') :
            (kid.kind = "crawl" /\ kid.pc.child /\ kid.apc = "load"
               /\ CopiesIn(kid, tasks') > CopiesIn(kid, tasks)) =>
                \E r \in Tasks :
                    /\ r.wpc = "loop"
                    /\ kid.pc.current = r.pc.current + 1
                    /\ \E i \in r.todo : r.report.PointsTo[i] = kid.pc.report]_vars

\* C27, the case: the two children of "/" are dispatched together, each with
\* its own target, and one of them is sending its report.
SiblingsApart ==
    \E r, q \in Tasks :
        /\ r.kind = "crawl" /\ r.pc.child /\ r.pc.Target = URL(ServerHost, ServicesPath)
        /\ r.pc.current = 1 /\ r.wpc = "deliver"
        /\ q.kind = "crawl" /\ q.pc.child /\ q.pc.Target = URL(ServerHost, ContactsPath)
        /\ q.pc.current = 1 /\ q.wpc \in {"none", "recv", "run", "claim", "ctx"}

\* C28: the status returned is the one of the four of the claim that the
\* outcome of the probe selects, and it is crawlable only when live.
FourStatuses ==
    probed.done =>
        LET html == Contains(head.res.ContentType, "text/html")
                        \/ Contains(head.res.ContentType, "text/xhtml")
            ok == head.res.StatusCode >= 200 /\ head.res.StatusCode <= 299
            st == probed.status
        IN /\ head.err =>
                 ~st.IsLive /\ ~st.IsCrawlable /\ st.Reason = "err"
           /\ (~head.err /\ ~ok) =>
                 ~st.IsLive /\ ~st.IsCrawlable /\ st.Reason = "ErrPageFailed"
           /\ (~head.err /\ ok /\ ~html) =>
                 st.IsLive /\ ~st.IsCrawlable /\ st.Reason = "ErrNonHTMLURL"
           /\ (~head.err /\ ok /\ html) =>
                 st.IsLive /\ st.IsCrawlable /\ st.Reason = "nil"
           /\ st.IsCrawlable => st.IsLive

\* C28, the case: a response with status 299 and an html content type with a
\* charset has been classified live and crawlable.
HtmlProbed ==
    /\ probed.done /\ ~head.err /\ head.res.StatusCode = 299
    /\ head.res.ContentType = <<"text/html", "charset=utf-8">>
    /\ probed.status = Status(TRUE, TRUE, 299, "nil")

====
